---- MODULE Spec2Model ----
(***************************************************************************)
(* Outbreak Alert System (src/app.py): a Streamlit script that loads a     *)
(* seasonal threshold table, reads an uploaded weekly surveillance sheet   *)
(* and classifies every facility/disease observation as Normal, Alert or   *)
(* High Alert.                                                             *)
(*                                                                         *)
(* Streamlit runs the whole script from top to bottom on session start and *)
(* again on every widget interaction; each action below is one such run.   *)
(*                                                                         *)
(* Representation.                                                         *)
(*   - a text cell is the sequence of its characters; an empty cell, which *)
(*     pandas reads as missing, is the empty sequence;                     *)
(*   - a numeric cell is an integer, a missing one is NaN;                 *)
(*   - a column name is the sequence of its parts, so that the substring   *)
(*     test of line 67 can look for the part "(New Cases)";                *)
(*   - a table is the sequence of its rows; a row of the uploaded sheet is *)
(*     a function from column names to cells;                              *)
(*   - an optional object (the cached threshold table, the uploaded file)  *)
(*     is None or Some(x).                                                 *)
(***************************************************************************)
EXTENDS Integers, Sequences, FiniteSets, TLC

VARIABLES
    pc,               \* where the last run of the script ended
    thresholds,       \* result of load_thresholds (cached): None or Some(table)
    uploaded_file,    \* the file uploader's value: None or Some(sheet)
    min_deviation,    \* sidebar slider
    show_all,         \* sidebar checkbox
    current_df,       \* parsed rows of the upload (after dropna)
    current_long,     \* melted observations
    alerts,           \* observations joined with thresholds and classified
    filtered_alerts,  \* default-mode table
    all_data,         \* show_all table
    view              \* what the page shows: kind and the two metrics

vars == <<pc, thresholds, uploaded_file, min_deviation, show_all, current_df,
          current_long, alerts, filtered_alerts, all_data, view>>

----------------------------------------------------------------------------
(* Values *)

None == <<>>
Some(x) == <<x>>
NaN == 0 - 1

Range(s) == {s[i] : i \in DOMAIN s}

RECURSIVE Flatten(_)
Flatten(ss) == IF ss = <<>> THEN <<>> ELSE Head(ss) \o Flatten(Tail(ss))

DigitChars == <<"0", "1", "2", "3", "4", "5", "6", "7", "8", "9">>
IsDigit(c) == c \in Range(DigitChars)
DigitValue(c) == (CHOOSE k \in DOMAIN DigitChars : DigitChars[k] = c) - 1

----------------------------------------------------------------------------
(* Sidebar widgets *)

MinDeviationMin == 1
MinDeviationMax == 10
MinDeviationDefault == 3
ShowAllDefault == FALSE

----------------------------------------------------------------------------
(* Identity Builder *)

org_cols ==
    << <<"orgunitlevel1">>, <<"orgunitlevel2">>, <<"orgunitlevel3">>,
       <<"orgunitlevel4">>, <<"orgunitlevel5">>, <<"orgunitlevel6">>,
       <<"organisationunitname">> >>

Unknown == <<"U", "n", "k", "n", "o", "w", "n">>

\* fillna('Unknown').astype(str) of one cell
FillUnknown(v) == IF v = <<>> THEN Unknown ELSE v

\* the loop of lines 48-50: only the org columns that are present are filled
FillOrgCols(row) ==
    [c \in DOMAIN row |->
        IF c \in Range(org_cols) THEN FillUnknown(row[c]) ELSE row[c]]

\* lines 51-54 index all seven columns; an absent one raises KeyError
HasOrgCols(columns) == \A k \in DOMAIN org_cols : org_cols[k] \in Range(columns)

FacilityID(row) ==
    row[org_cols[1]] \o <<"_">> \o row[org_cols[2]] \o <<"_">> \o
    row[org_cols[3]] \o <<"_">> \o row[org_cols[4]] \o <<"_">> \o
    row[org_cols[5]] \o <<"_">> \o row[org_cols[6]] \o <<"_">> \o
    row[org_cols[7]]

----------------------------------------------------------------------------
(* Period Parser *)

periodname == <<"periodname">>

nan_str == <<"n", "a", "n">>

\* astype(str): a missing cell becomes the text "nan"
AsStr(v) == IF v = <<>> THEN nan_str ELSE v

IsSpace(c) == c = " "

RECURSIVE LStrip(_)
LStrip(s) == IF s # <<>> /\ IsSpace(Head(s)) THEN LStrip(Tail(s)) ELSE s

RECURSIVE RStrip(_)
RStrip(s) ==
    IF s # <<>> /\ IsSpace(s[Len(s)]) THEN RStrip(SubSeq(s, 1, Len(s) - 1)) ELSE s

Strip(s) == RStrip(LStrip(s))

LitWeek == <<"W", "e", "e", "k", " ">>
LitDash == <<"-">>
LitSpace == <<" ">>
LitRange == <<" ", "-", " ">>

LitAt(s, i, lit) ==
    /\ i >= 1
    /\ i + Len(lit) - 1 <= Len(s)
    /\ SubSeq(s, i, i + Len(lit) - 1) = lit

DigitsAt(s, i, n) ==
    /\ i >= 1
    /\ i + n - 1 <= Len(s)
    /\ \A k \in i..(i + n - 1) : IsDigit(s[k])

\* index of the last character of the longest run of digits that starts at i
\* (i - 1 when s[i] is no digit), for i <= Len(s) + 1
DigitRunEnd(s, i) ==
    CHOOSE e \in (i - 1)..Len(s) :
        /\ \A k \in i..e : IsDigit(s[k])
        /\ e = Len(s) \/ ~IsDigit(s[e + 1])

\* \d{4}-\d{2}-\d{2}
DateAt(s, i) ==
    /\ DigitsAt(s, i, 4)
    /\ LitAt(s, i + 4, LitDash)
    /\ DigitsAt(s, i + 5, 2)
    /\ LitAt(s, i + 7, LitDash)
    /\ DigitsAt(s, i + 8, 2)

\* patterns[0] matched at position i. \d+ is followed by a space, so it takes
\* the whole run of digits.
MatchAt(s, i) ==
    /\ LitAt(s, i, LitWeek)
    /\ LET e == DigitRunEnd(s, i + 5) IN
        /\ e >= i + 5
        /\ LitAt(s, e + 1, LitSpace)
        /\ DateAt(s, e + 2)
        /\ LitAt(s, e + 12, LitRange)
        /\ DateAt(s, e + 15)

\* str.extract: the captures of the first match anywhere in the text, or
\* missing captures when there is none
Extract(s) ==
    IF \E i \in 1..Len(s) : MatchAt(s, i)
    THEN LET i == CHOOSE i \in 1..Len(s) :
                    MatchAt(s, i) /\ \A j \in 1..(i - 1) : ~MatchAt(s, j)
             e == DigitRunEnd(s, i + 5)
         IN  [Week |-> SubSeq(s, i + 5, e), Year |-> SubSeq(s, e + 2, e + 5)]
    ELSE [Week |-> <<>>, Year |-> <<>>]

RECURSIVE Decimal(_)
Decimal(ds) ==
    IF ds = <<>> THEN 0
    ELSE 10 * Decimal(SubSeq(ds, 1, Len(ds) - 1)) + DigitValue(ds[Len(ds)])

\* pd.to_numeric(errors='coerce') of a captured text
ToNumeric(ds) ==
    IF ds # <<>> /\ \A k \in DOMAIN ds : IsDigit(ds[k]) THEN Decimal(ds) ELSE NaN

\* lines 57-63 for one row: the row with its Week and Year
ParsePeriod(row) ==
    LET label == Strip(AsStr(row[periodname]))
        extracted == Extract(label)
    IN  (<<"Week">> :> ToNumeric(extracted.Week)) @@
        (<<"Year">> :> ToNumeric(extracted.Year)) @@
        [c \in DOMAIN row |-> IF c = periodname THEN label ELSE row[c]]

\* dropna(subset=['Year', 'Week'])
DropNa(rows) ==
    SelectSeq(rows, LAMBDA r : r[<<"Year">>] # NaN /\ r[<<"Week">>] # NaN)

----------------------------------------------------------------------------
(* Season Classifier *)

assign_seasonOffByOneMutant(week) ==
    IF week = NaN THEN "Unknown"
    ELSE IF 10 < week /\ week < 20 THEN "Spring"
    ELSE IF 21 < week /\ week < 35 THEN "Summer"
    ELSE IF 36 < week /\ week < 43 THEN "Autumn"
    ELSE "Winter"

\* pd.isna(week) cannot hold after DropNa; the branch is kept as in the code
assign_season(week) ==
    IF week = NaN THEN "Unknown"
    ELSE IF 10 <= week /\ week <= 20 THEN "Spring"
    ELSE IF 21 <= week /\ week <= 35 THEN "Summer"
    ELSE IF 36 <= week /\ week <= 43 THEN "Autumn"
    ELSE "Winter"

NewCases == "(New Cases)"
NewcasesLower == "(New cases)"

year_round_diseases ==
    { <<"Acute Flaccid Paralysis ", NewCases>>, <<"Botulism ", NewCases>>,
      <<"Gonorrhea ", NewCases>>, <<"HIV/AIDS ", NewCases>>,
      <<"Leprosy ", NewCases>>, <<"Nosocomial Infections ", NewCases>>,
      <<"Syphilis ", NewCases>>, <<"Visceral Leishmaniasis ", NewCases>>,
      <<"Neonatal Tetanus ", NewCases>> }

----------------------------------------------------------------------------
(* Reshaper *)

\* line 67: '(New Cases)' in col or '(New cases)' in col
IsDiseaseCol(col) ==
    \E k \in DOMAIN col : col[k] = NewCases \/ col[k] = NewcasesLower

DiseaseCols(columns) == SelectSeq(columns, IsDiseaseCol)

\* lines 68-69: fillna(0).astype(int) on the disease columns
FillCases(row, disease_cols) ==
    [c \in DOMAIN row |->
        IF c \in Range(disease_cols) /\ row[c] = NaN THEN 0 ELSE row[c]]

\* line 85
WithSeason(row) == (<<"Season">> :> assign_season(row[<<"Week">>])) @@ row

\* lines 88-91: one observation per disease column per row, column by column
Melt(rows, disease_cols) ==
    LET nr == Len(rows) IN
    [k \in 1..(Len(disease_cols) * nr) |->
        LET d == disease_cols[((k - 1) \div nr) + 1]
            r == rows[((k - 1) % nr) + 1]
        IN  [Facility_ID |-> r[<<"Facility_ID">>], Season |-> r[<<"Season">>],
             Disease |-> d, Cases |-> r[d]]]

\* line 99
YearRoundOverride(obs) ==
    IF obs.Disease \in year_round_diseases
    THEN [obs EXCEPT !.Season = "Year-Round"] ELSE obs

----------------------------------------------------------------------------
(* Threshold Joiner *)

SameKey(obs, t) ==
    /\ obs.Facility_ID = t.Facility_ID
    /\ obs.Disease = t.Disease
    /\ obs.Season = t.Season

Joined(obs, mean, sd, t95, t99) ==
    [Facility_ID |-> obs.Facility_ID, Disease |-> obs.Disease,
     Season |-> obs.Season, Cases |-> obs.Cases, Mean |-> mean, SD |-> sd,
     Threshold_95 |-> t95, Threshold_99 |-> t99]

\* the rows a left join gives for one observation: one per matching threshold
\* row, or one with missing threshold fields
JoinOne(obs, table) ==
    LET hits == SelectSeq(table, LAMBDA t : SameKey(obs, t)) IN
    IF hits = <<>> THEN << Joined(obs, NaN, NaN, NaN, NaN) >>
    ELSE [k \in DOMAIN hits |->
            Joined(obs, hits[k].Mean, hits[k].SD, hits[k].Threshold_95,
                   hits[k].Threshold_99)]

\* line 102
Merge(long, table) == Flatten([k \in DOMAIN long |-> JoinOne(long[k], table)])

----------------------------------------------------------------------------
(* Alert Classifier *)

notna(x) == x # NaN

\* an elementwise comparison with a missing operand is False
Gt(a, b) == notna(a) /\ notna(b) /\ a > b

\* a difference with a missing operand is missing
Minus(a, b) == IF notna(a) /\ notna(b) THEN a - b ELSE NaN

AlertLevelGeMutant(cases, t95, t99) ==
    IF notna(cases) /\ notna(t99) /\ cases >= t99 THEN "High Alert"
    ELSE IF notna(cases) /\ notna(t95) /\ cases >= t95 THEN "Alert"
    ELSE "Normal"

AlertLevelOrderMutant(cases, t95, t99) ==
    IF Gt(cases, t95) /\ notna(t95) THEN "Alert"
    ELSE IF Gt(cases, t99) /\ notna(t99) THEN "High Alert"
    ELSE "Normal"

\* lines 103-108
AlertLevel(cases, t95, t99) ==
    IF Gt(cases, t99) /\ notna(t99) THEN "High Alert"
    ELSE IF Gt(cases, t95) /\ notna(t95) THEN "Alert"
    ELSE "Normal"

\* lines 110-113
Deviation(level, cases, t95, t99) ==
    IF level = "High Alert" THEN Minus(cases, t99)
    ELSE IF level = "Alert" THEN Minus(cases, t95)
    ELSE 0

Classify(j) ==
    LET level == AlertLevel(j.Cases, j.Threshold_95, j.Threshold_99) IN
    [Facility_ID |-> j.Facility_ID, Disease |-> j.Disease, Season |-> j.Season,
     Cases |-> j.Cases, Mean |-> j.Mean, SD |-> j.SD,
     Threshold_95 |-> j.Threshold_95, Threshold_99 |-> j.Threshold_99,
     Alert_Level |-> level,
     Deviation |-> Deviation(level, j.Cases, j.Threshold_95, j.Threshold_99)]

----------------------------------------------------------------------------
(* Filter / Report Selector *)

\* a comparison of a missing Deviation is False
Ge(a, b) == notna(a) /\ a >= b

KeepAlertNoCutoffMutant(a, min_dev) ==
    a.Alert_Level # "Normal" /\ notna(a.Threshold_95)

\* line 116
KeepAlert(a, min_dev) ==
    /\ a.Alert_Level # "Normal"
    /\ notna(a.Threshold_95)
    /\ Ge(a.Deviation, min_dev)

FilterAlerts(table, min_dev) == SelectSeq(table, LAMBDA a : KeepAlert(a, min_dev))

KeepFullNoBaselineMutant(a) == TRUE

KeepFullAlertsOnlyMutant(a) == notna(a.Threshold_95) /\ a.Alert_Level # "Normal"

\* line 122
KeepFull(a) == notna(a.Threshold_95)

AllData(table) == SelectSeq(table, KeepFull)

CountLevel(table, level) ==
    Cardinality({k \in DOMAIN table : table[k].Alert_Level = level})

----------------------------------------------------------------------------
(* One run of the script *)

\* lines 47-54: KeyError is raised before any row is built
Identified(sheet) ==
    [k \in DOMAIN sheet.rows |->
        LET filled == FillOrgCols(sheet.rows[k]) IN
        (<<"Facility_ID">> :> FacilityID(filled)) @@ filled]

\* lines 57-85
CurrentDf(sheet) ==
    LET parsed == [k \in DOMAIN sheet.rows |-> ParsePeriod(Identified(sheet)[k])]
        kept == DropNa(parsed)
    IN  [k \in DOMAIN kept |->
            WithSeason(FillCases(kept[k], DiseaseCols(sheet.columns)))]

\* lines 88-99
CurrentLong(df, columns) ==
    LET long == Melt(df, DiseaseCols(columns)) IN
    [k \in DOMAIN long |-> YearRoundOverride(long[k])]

\* lines 102-113
Alerts(long, table) ==
    LET merged == Merge(long, table) IN
    [k \in DOMAIN merged |-> Classify(merged[k])]

NoView == [kind |-> "none", high_count |-> 0, alert_count |-> 0]

\* lines 120-141
Render(filtered, sa) ==
    IF sa THEN [kind |-> "full", high_count |-> 0, alert_count |-> 0]
    ELSE IF filtered # <<>>
    THEN [kind |-> "alerts",
          high_count |-> CountLevel(filtered, "High Alert"),
          alert_count |-> CountLevel(filtered, "Alert")]
    ELSE [kind |-> "no_alerts", high_count |-> 0, alert_count |-> 0]

StopsOnLoadFailureOffMutant(thr) == FALSE

\* lines 28-29
StopsOnLoadFailure(thr) == thr = None

\* where a run of the script ends, given the cached load result and the file:
\* st.stop() at line 29, st.info at line 143, the KeyError of lines 51-54, or
\* the end of the upload branch
EndOfRun(thr, file) ==
    IF StopsOnLoadFailure(thr) THEN "stopped"
    ELSE IF file = None THEN "idle"
    ELSE IF ~HasOrgCols(file[1].columns) THEN "KeyError"
    ELSE "done"

\* the script from line 27 on, run on the new values of the cached load result
\* and of the widgets; each table is computed from the one before it
Run ==
    /\ pc' = EndOfRun(thresholds', uploaded_file')
    /\ current_df' =
          IF pc' = "done" THEN CurrentDf(uploaded_file'[1]) ELSE <<>>
    /\ current_long' =
          IF pc' = "done"
          THEN CurrentLong(current_df', uploaded_file'[1].columns) ELSE <<>>
    /\ alerts' =
          IF pc' = "done" THEN Alerts(current_long', thresholds'[1]) ELSE <<>>
    /\ filtered_alerts' =
          IF pc' = "done" THEN FilterAlerts(alerts', min_deviation') ELSE <<>>
    /\ all_data' =
          IF pc' = "done" /\ show_all' THEN AllData(alerts') ELSE <<>>
    /\ view' =
          IF pc' = "done" THEN Render(filtered_alerts', show_all') ELSE NoView

----------------------------------------------------------------------------
(* Actions: the first run and the reruns Streamlit triggers *)

Init ==
    /\ pc = "start"
    /\ thresholds = None
    /\ uploaded_file = None
    /\ min_deviation = MinDeviationDefault
    /\ show_all = ShowAllDefault
    /\ current_df = <<>>
    /\ current_long = <<>>
    /\ alerts = <<>>
    /\ filtered_alerts = <<>>
    /\ all_data = <<>>
    /\ view = NoView

\* first run, pd.read_csv succeeds
LoadOk(table) ==
    /\ pc = "start"
    /\ thresholds' = Some(table)
    /\ UNCHANGED <<uploaded_file, min_deviation, show_all>>
    /\ Run

\* first run, pd.read_csv raises: load_thresholds returns None
LoadFail ==
    /\ pc = "start"
    /\ thresholds' = None
    /\ UNCHANGED <<uploaded_file, min_deviation, show_all>>
    /\ Run

\* the widgets exist only in a run that got past line 29
WidgetsRendered == pc \in {"idle", "done", "KeyError"}

Upload(sheet) ==
    /\ WidgetsRendered
    /\ uploaded_file = None
    /\ uploaded_file' = Some(sheet)
    /\ UNCHANGED <<thresholds, min_deviation, show_all>>
    /\ Run

RemoveFile ==
    /\ WidgetsRendered
    /\ uploaded_file # None
    /\ uploaded_file' = None
    /\ UNCHANGED <<thresholds, min_deviation, show_all>>
    /\ Run

SetMinDeviation(m) ==
    /\ WidgetsRendered
    /\ m # min_deviation
    /\ min_deviation' = m
    /\ UNCHANGED <<thresholds, uploaded_file, show_all>>
    /\ Run

SetShowAll(b) ==
    /\ WidgetsRendered
    /\ b # show_all
    /\ show_all' = b
    /\ UNCHANGED <<thresholds, uploaded_file, min_deviation>>
    /\ Run

\* a rerun without any widget change (the cached load result is reused)
Rerun ==
    /\ pc # "start"
    /\ UNCHANGED <<thresholds, uploaded_file, min_deviation, show_all>>
    /\ Run

----------------------------------------------------------------------------
(* Inputs *)

MaxCases == 3
MaxThreshold == 2

Measles == <<"Measles ", NewCases>>
HIV == <<"HIV/AIDS ", NewCases>>

SheetColumns == org_cols \o <<periodname, Measles, HIV>>
ColumnsWithoutLevel6 == SelectSeq(SheetColumns, LAMBDA c : c # org_cols[6])

\* a sheet row over `columns`: the org cells, the period label and the counts
SheetRow(columns, org, label, cases) ==
    [c \in Range(columns) |->
        IF c \in Range(org_cols)
        THEN org[CHOOSE k \in DOMAIN org_cols : org_cols[k] = c]
        ELSE IF c = periodname THEN label
        ELSE cases[c]]

Y2024 == <<"2", "0", "2", "4">>
DateTail ==
    <<"-", "0", "4", "-", "0", "8", " ", "-", " ",
      "2", "0", "2", "4", "-", "0", "4", "-", "1", "4">>
Label(week, year) == LitWeek \o week \o LitSpace \o year \o DateTail

LabelWeek15 == Label(<<"1", "5">>, Y2024)
LabelWeek2 == Label(<<"2">>, Y2024)
LabelIso == <<"2", "0", "2", "4", "W", "1", "5">>

\* a facility whose level 5 cell is empty
OrgPeshawar == << <<"K">>, <<"P">>, <<"D">>, <<"T">>, <<>>, <<"U">>, <<"H">> >>
FidPeshawar ==
    <<"K", "_", "P", "_", "D", "_", "T", "_">> \o Unknown \o <<"_", "U", "_", "H">>

CaseCells == {NaN} \cup (0..MaxCases)
ThresholdCells == {NaN} \cup (1..MaxThreshold)

Sheets ==
    { [columns |-> cols,
       rows |-> << SheetRow(cols, OrgPeshawar, label,
                            (Measles :> measles) @@ (HIV :> hiv)) >>] :
        cols \in {SheetColumns, ColumnsWithoutLevel6},
        label \in {LabelWeek15, LabelWeek2, LabelIso},
        measles \in CaseCells, hiv \in {NaN, MaxCases} }

ThresholdRow(fid, disease, season, t95, t99) ==
    [Facility_ID |-> fid, Disease |-> disease, Season |-> season,
     Mean |-> 1, SD |-> 1, Threshold_95 |-> t95, Threshold_99 |-> t99]

ThresholdRows ==
    { ThresholdRow(FidPeshawar, key[1], key[2], t95, t99) :
        key \in { <<Measles, "Spring">>, <<HIV, "Year-Round">> },
        t95 \in ThresholdCells, t99 \in ThresholdCells }

ThresholdTables == { <<>> } \cup { <<t>> : t \in ThresholdRows }

Next ==
    \/ \E table \in ThresholdTables : LoadOk(table)
    \/ LoadFail
    \/ \E sheet \in Sheets : Upload(sheet)
    \/ RemoveFile
    \/ \E m \in MinDeviationMin..MinDeviationMax : SetMinDeviation(m)
    \/ \E b \in BOOLEAN : SetShowAll(b)
    \/ Rerun

Spec == Init /\ [][Next]_vars

----------------------------------------------------------------------------
(* Inputs that vary the Cases of one facility and disease within a season *)

LabelWeek16 == Label(<<"1", "6">>, Y2024)

TwoWeekSheets ==
    { [columns |-> SheetColumns,
       rows |-> << SheetRow(SheetColumns, OrgPeshawar, LabelWeek15,
                            (Measles :> c1) @@ (HIV :> NaN)),
                   SheetRow(SheetColumns, OrgPeshawar, LabelWeek16,
                            (Measles :> c2) @@ (HIV :> NaN)) >>] :
        c1 \in 0..MaxCases, c2 \in 0..MaxCases }

NextCases ==
    \/ \E table \in ThresholdTables : LoadOk(table)
    \/ LoadFail
    \/ \E sheet \in TwoWeekSheets : Upload(sheet)
    \/ RemoveFile
    \/ \E m \in MinDeviationMin..MinDeviationMax : SetMinDeviation(m)
    \/ \E b \in BOOLEAN : SetShowAll(b)
    \/ Rerun

SpecCases == Init /\ [][NextCases]_vars

----------------------------------------------------------------------------
(* Inputs that vary the period label and the disease columns *)

MaxWeek == 54

RECURSIVE Digits(_)
Digits(n) ==
    IF n < 10 THEN << DigitChars[n + 1] >>
    ELSE Digits(n \div 10) \o << DigitChars[(n % 10) + 1] >>

HIVLower == <<"HIV/AIDS ", NewcasesLower>>
CholeraOther == <<"Cholera ", "(new cases)">>

SeasonDiseaseCols ==
    << Measles, HIVLower, CholeraOther,
       <<"Acute Flaccid Paralysis ", NewCases>>, <<"Botulism ", NewCases>>,
       <<"Gonorrhea ", NewCases>>, HIV, <<"Leprosy ", NewCases>>,
       <<"Nosocomial Infections ", NewCases>>, <<"Syphilis ", NewCases>>,
       <<"Visceral Leishmaniasis ", NewCases>>,
       <<"Neonatal Tetanus ", NewCases>> >>

SeasonColumns == org_cols \o <<periodname>> \o SeasonDiseaseCols

LabelPadded == <<" ", " ">> \o LabelWeek15 \o <<" ">>
LabelLeadingZero == Label(<<"0", "7">>, Y2024)
LabelPrefixed == <<"E", "p", "i", " ">> \o LabelWeek15
LabelLowercase == <<"w">> \o Tail(LabelWeek15)
LabelShortYear == Label(<<"1", "5">>, <<"2", "0", "2">>)
LabelNoSecondDate == SubSeq(LabelWeek15, 1, Len(LabelWeek15) - 1)
LabelY1999 == Label(<<"4", "0">>, <<"1", "9", "9", "9">>)
LabelMissing == <<>>

PeriodLabels ==
    { Label(Digits(w), Y2024) : w \in 0..MaxWeek } \cup
    { LabelPadded, LabelLeadingZero, LabelPrefixed, LabelLowercase,
      LabelShortYear, LabelNoSecondDate, LabelY1999, LabelIso, LabelMissing }

AllOnes == [c \in Range(SeasonDiseaseCols) |-> 1]

PeriodSheets ==
    { [columns |-> SeasonColumns,
       rows |-> << SheetRow(SeasonColumns, OrgPeshawar, label, AllOnes) >>] :
        label \in PeriodLabels } \cup
    { [columns |-> SeasonColumns,
       rows |-> << SheetRow(SeasonColumns, OrgPeshawar, LabelIso, AllOnes),
                   SheetRow(SeasonColumns, OrgPeshawar, label, AllOnes) >>] :
        label \in {LabelWeek2, LabelMissing} }

SeasonTable ==
    << ThresholdRow(FidPeshawar, HIV, "Year-Round", 0, NaN),
       ThresholdRow(FidPeshawar, Measles, "Winter", NaN, 0) >>

NextPeriod ==
    \/ LoadOk(SeasonTable)
    \/ LoadFail
    \/ \E sheet \in PeriodSheets : Upload(sheet)
    \/ RemoveFile
    \/ \E m \in MinDeviationMin..MinDeviationMax : SetMinDeviation(m)
    \/ \E b \in BOOLEAN : SetShowAll(b)
    \/ Rerun

SpecPeriod == Init /\ [][NextPeriod]_vars

----------------------------------------------------------------------------
(* Inputs that vary the organisation units of two facilities *)

OrgCells == { <<"A">>, <<"A", "_", "A">>, <<>> }

\* the seven cells of a facility, at most one of them not plain
OrgTuples ==
    { t \in [DOMAIN org_cols -> OrgCells] :
        Cardinality({k \in DOMAIN org_cols : t[k] # <<"A">>}) <= 1 }

FacilitySheets ==
    { [columns |-> SheetColumns,
       rows |-> << SheetRow(SheetColumns, t1, LabelWeek15,
                            (Measles :> 1) @@ (HIV :> 1)),
                   SheetRow(SheetColumns, t2, LabelWeek15,
                            (Measles :> 1) @@ (HIV :> 1)) >>] :
        t1 \in OrgTuples, t2 \in OrgTuples }

NextFacility ==
    \/ LoadOk(SeasonTable)
    \/ LoadFail
    \/ \E sheet \in FacilitySheets : Upload(sheet)
    \/ RemoveFile
    \/ \E m \in MinDeviationMin..MinDeviationMax : SetMinDeviation(m)
    \/ \E b \in BOOLEAN : SetShowAll(b)
    \/ Rerun

SpecFacility == Init /\ [][NextFacility]_vars

----------------------------------------------------------------------------
(* Properties of the classified table and of the two output tables *)

Rows(table) == Range(table)

\* C1: every joined row carries the level and deviation of the strict priority
\* rule: Threshold_99 present and Cases above it gives High Alert with
\* Cases - Threshold_99; else Threshold_95 present and Cases above it gives
\* Alert with Cases - Threshold_95; else Normal with 0. A missing threshold
\* never triggers.
C1_PriorityRule ==
    \A a \in Rows(alerts) :
        IF a.Threshold_99 # NaN /\ a.Cases > a.Threshold_99
        THEN a.Alert_Level = "High Alert" /\ a.Deviation = a.Cases - a.Threshold_99
        ELSE IF a.Threshold_95 # NaN /\ a.Cases > a.Threshold_95
        THEN a.Alert_Level = "Alert" /\ a.Deviation = a.Cases - a.Threshold_95
        ELSE a.Alert_Level = "Normal" /\ a.Deviation = 0

\* a High Alert row whose Threshold_95 is above its Threshold_99, an Alert row
\* whose Threshold_99 is missing and a Normal row with both thresholds present
C1_Witness ==
    /\ \E a \in Rows(alerts) :
          /\ a.Alert_Level = "High Alert"
          /\ a.Threshold_95 # NaN /\ a.Threshold_95 > a.Threshold_99
    /\ \E a \in Rows(alerts) : a.Alert_Level = "Normal" /\ a.Threshold_95 = NaN

\* C2: every row of the default-mode table is not Normal, has a Deviation of
\* at least min_deviation, and that Deviation is Cases - Threshold_99 for a
\* High Alert and Cases - Threshold_95 for an Alert.
C2_DefaultRows ==
    ~show_all =>
        \A a \in Rows(filtered_alerts) :
            /\ a.Alert_Level \in {"Alert", "High Alert"}
            /\ a.Deviation >= min_deviation
            /\ a.Alert_Level = "High Alert" =>
                  a.Threshold_99 # NaN /\ a.Deviation = a.Cases - a.Threshold_99
            /\ a.Alert_Level = "Alert" =>
                  a.Threshold_95 # NaN /\ a.Deviation = a.Cases - a.Threshold_95

\* the default table is shown and holds a High Alert row whose Deviation is
\* just the cutoff, the cutoff not being the least one
C2_Witness ==
    /\ view.kind = "alerts"
    /\ min_deviation > MinDeviationMin
    /\ \E a \in Rows(filtered_alerts) :
          /\ a.Alert_Level = "High Alert"
          /\ a.Deviation = min_deviation
          /\ a.Threshold_95 > a.Threshold_99

\* C3: a classified row whose Threshold_95 is missing is in neither output
\* table, whatever its Cases and min_deviation, also when it is a High Alert.
C3_NoBaselineNeverShown ==
    \A a \in Rows(alerts) :
        a.Threshold_95 = NaN =>
            a \notin Rows(filtered_alerts) /\ a \notin Rows(all_data)

\* show_all is on and a High Alert row without Threshold_95 was classified
C3_Witness ==
    /\ show_all
    /\ pc = "done"
    /\ min_deviation = MinDeviationMin
    /\ \E a \in Rows(alerts) :
          a.Threshold_95 = NaN /\ a.Alert_Level = "High Alert"

\* C4: with show_all on, the table shown is exactly the classified rows whose
\* Threshold_95 is present; it holds every default-mode row, and a change of
\* min_deviation alone leaves it as it was.
C4_ShowAllTable ==
    /\ [](show_all /\ pc = "done" =>
            /\ Rows(all_data) = {a \in Rows(alerts) : a.Threshold_95 # NaN}
            /\ Len(all_data) =
                  Cardinality({k \in DOMAIN alerts : alerts[k].Threshold_95 # NaN})
            /\ Rows(filtered_alerts) \subseteq Rows(all_data)
            /\ view.kind = "full")
    /\ [][(show_all /\ show_all' /\ pc = "done"
            /\ uploaded_file' = uploaded_file /\ thresholds' = thresholds)
          => (all_data' = all_data /\ view' = view)]_vars

\* show_all shows an Alert row that the cutoff keeps out of the default table,
\* next to an observation that has no baseline
C4_Witness ==
    /\ show_all
    /\ view.kind = "full"
    /\ Len(all_data) < Len(alerts)
    /\ \E a \in Rows(all_data) :
          /\ a.Alert_Level = "Alert"
          /\ a.Deviation < min_deviation
          /\ a \notin Rows(filtered_alerts)

----------------------------------------------------------------------------
(* Properties of the run as a whole *)

SomeOrgColAbsent ==
    /\ uploaded_file # None
    /\ \E k \in DOMAIN org_cols : org_cols[k] \notin Range(uploaded_file[1].columns)

\* C9: the Identity Builder has no error outcome: a run on a sheet that lacks
\* one of the seven org columns skips that column, still gives every row a
\* Facility_ID and goes on to the end of the script.
C9_AbsentOrgColSkipped ==
    (thresholds # None /\ SomeOrgColAbsent) =>
        /\ pc = "done"
        /\ Len(current_df) > 0 =>
              \A k \in DOMAIN current_df : <<"Facility_ID">> \in DOMAIN current_df[k]

NothingComputed ==
    /\ current_df = <<>>
    /\ current_long = <<>>
    /\ alerts = <<>>
    /\ filtered_alerts = <<>>
    /\ all_data = <<>>
    /\ view = NoView

LoadFailed == pc # "start" /\ thresholds = None

\* C10: a failed load of the threshold table halts the run before the file
\* uploader exists: nothing is uploaded, classified or shown, and the run stays
\* halted; after a successful load and without a file the script idles, again
\* with nothing computed.
C10_HaltsWithoutThresholds ==
    /\ [](LoadFailed => pc = "stopped" /\ uploaded_file = None /\ NothingComputed)
    /\ []((thresholds # None /\ uploaded_file = None) =>
              pc = "idle" /\ NothingComputed)
    /\ [][LoadFailed => UNCHANGED vars]_vars

\* the load has failed and the script has stopped
C10_Witness == LoadFailed /\ pc = "stopped"

----------------------------------------------------------------------------
(* Properties of the stages before the join *)

Rank(level) ==
    IF level = "Normal" THEN 0 ELSE IF level = "Alert" THEN 1 ELSE 2

\* C5: among classified rows with the same pair of thresholds, present or
\* missing and in either order, a row with no fewer Cases never has a lower
\* Alert_Level, in the order Normal < Alert < High Alert.
C5_MonotonicInCases ==
    \A a \in Rows(alerts), b \in Rows(alerts) :
        (/\ a.Threshold_95 = b.Threshold_95
         /\ a.Threshold_99 = b.Threshold_99
         /\ a.Cases <= b.Cases)
        => Rank(a.Alert_Level) <= Rank(b.Alert_Level)

\* two weeks of one facility and disease under a Threshold_95 above the
\* Threshold_99, the week with fewer Cases Normal and the other a High Alert
C5_Witness ==
    \E a \in Rows(alerts), b \in Rows(alerts) :
        /\ a.Threshold_95 = b.Threshold_95
        /\ a.Threshold_99 = b.Threshold_99
        /\ a.Threshold_95 > a.Threshold_99
        /\ a.Threshold_99 # NaN
        /\ a.Cases < b.Cases
        /\ a.Alert_Level = "Normal"
        /\ b.Alert_Level = "High Alert"

WeekSeason(week) ==
    IF week \in 10..20 THEN "Spring"
    ELSE IF week \in 21..35 THEN "Summer"
    ELSE IF week \in 36..43 THEN "Autumn"
    ELSE "Winter"

\* C6: the observation of parsed row i and disease column j has Season
\* 'Year-Round' when the column is one of the nine year-round names, whatever
\* the week; otherwise Spring for weeks 10-20, Summer for 21-35, Autumn for
\* 36-43 and Winter for every other week.
C6_SeasonOfWeekAndDisease ==
    pc = "done" =>
        LET dcols == DiseaseCols(uploaded_file[1].columns)
            nr == Len(current_df)
        IN  /\ Len(current_long) = nr * Len(dcols)
            /\ \A i \in DOMAIN current_df, j \in DOMAIN dcols :
                  LET obs == current_long[(j - 1) * nr + i] IN
                  /\ obs.Disease = dcols[j]
                  /\ obs.Season =
                        IF dcols[j] \in year_round_diseases THEN "Year-Round"
                        ELSE WeekSeason(current_df[i][<<"Week">>])

\* week 2: the HIV/AIDS observation is Year-Round, the Measles one Winter
C6_Witness ==
    /\ pc = "done"
    /\ \E r \in Rows(current_df) : r[<<"Week">>] = 2
    /\ \E o \in Rows(current_long) : o.Disease = HIV /\ o.Season = "Year-Round"
    /\ \E o \in Rows(current_long) : o.Disease = Measles /\ o.Season = "Winter"
    /\ Cardinality({o \in Rows(current_long) : o.Season = "Year-Round"}) =
          Cardinality(year_round_diseases)

Matches(cell) == \E i \in 1..Len(Strip(AsStr(cell))) : MatchAt(Strip(AsStr(cell)), i)

\* C7: every parsed row has a Week in 1..53 and a Year of four digits, and the
\* parsed rows are those of the sheet whose label matches the pattern.
C7_WeekInRangeAndDrops ==
    pc = "done" =>
        /\ \A r \in Rows(current_df) :
              r[<<"Week">>] \in 1..53 /\ r[<<"Year">>] \in 1000..9999
        /\ Len(current_df) =
              Cardinality({k \in DOMAIN uploaded_file[1].rows :
                              Matches(uploaded_file[1].rows[k][periodname])})

OrgOf(r) == [k \in DOMAIN org_cols |-> r[org_cols[k]]]

\* C8: two parsed rows have the same Facility_ID exactly when their seven
\* organisation-unit values, after the fill of missing ones, are the same.
C8_FacilityIdInjective ==
    \A a \in Rows(current_df), b \in Rows(current_df) :
        (a[<<"Facility_ID">>] = b[<<"Facility_ID">>]) <=> (OrgOf(a) = OrgOf(b))

====
